---- MODULE Spec2Model ----
(***************************************************************************)
(* Three independent teaching programs:                                    *)
(*   - Lab05 berkeley.cpp : Berkeley clock averaging (SpecBerkeley)        *)
(*   - Lab05 cristian.cpp : Cristian round-trip estimate (SpecCristian)    *)
(*   - Lab03 LoadBalancer.cc : random two-gate dispatcher (SpecBalancer)   *)
(* Each program has its own variables, actions and specification; the      *)
(* variables of the other two programs stay at their initial values.       *)
(***************************************************************************)
EXTENDS Integers, Sequences, FiniteSets

VARIABLES
    \* berkeley.cpp main()
    bpc, master_time, slave_times, time_differences, sum,
    average_difference, synchronized_time,
    \* cristian.cpp main()
    cpc, now, nondecreasing, T0, T_server, T1, RTT, c_synchronized_time,
    c_out, c_result,
    \* LoadBalancer.cc
    lb_queue, lb_arrived, lb_handled, lb_sent

bvars == <<bpc, master_time, slave_times, time_differences, sum,
           average_difference, synchronized_time>>
cvars == <<cpc, now, nondecreasing, T0, T_server, T1, RTT,
           c_synchronized_time, c_out, c_result>>
lvars == <<lb_queue, lb_arrived, lb_handled, lb_sent>>
vars  == <<bvars, cvars, lvars>>

Abs(x) == IF x < 0 THEN -x ELSE x

\* C++ integer division: the quotient is truncated toward zero.
TruncDiv(a, b) ==
    IF (a >= 0) = (b > 0) THEN Abs(a) \div Abs(b) ELSE -(Abs(a) \div Abs(b))

(***************************************************************************)
(*                         berkeley.cpp                                    *)
(***************************************************************************)
NUM_SLAVES == 6

\* rand() % 11 - 5
OffsetSpan  == 11
OffsetShift == 5

\* Bounds of the model: the largest |offset| drawn, and the number of
\* distinct values time(0) may return beyond the first.
MaxOff    == 2
MaxMaster == 1

MasterTimes == 100..(100 + MaxMaster)
RandValues  == {r \in 0..(OffsetSpan - 1) :
                    (r % OffsetSpan) - OffsetShift \in (-MaxOff)..MaxOff}

SlaveOffset(r) == (r % OffsetSpan) - OffsetShift

Difference(m, s) == m - s

RECURSIVE SumOf(_)
SumOf(s) == IF s = <<>> THEN 0 ELSE s[1] + SumOf(Tail(s))

AverageDifference_Floor(total, n) == total \div n
AverageDifference_Nearest(total, n) == (2 * total + n) \div (2 * n)
AverageDifference(total, n) == TruncDiv(total, n)

SynchronizedMaster(m, avg) == m + avg

UpdatedSlaves_SkipLast(st, avg) ==
    [i \in DOMAIN st |-> IF i < Len(st) THEN st[i] + avg ELSE st[i]]
UpdatedSlaves(st, avg) == [i \in DOMAIN st |-> st[i] + avg]

BInit ==
    /\ bpc = "start"
    /\ master_time = 0
    /\ slave_times = <<>>
    /\ time_differences = <<>>
    /\ sum = 0
    /\ average_difference = 0
    /\ synchronized_time = 0

\* line 15: time_t master_time = time(0);
ReadMaster ==
    /\ bpc = "start"
    /\ \E t \in MasterTimes : master_time' = t
    /\ bpc' = "gen"
    /\ UNCHANGED <<slave_times, time_differences, sum, average_difference,
                   synchronized_time>>
    /\ UNCHANGED <<cvars, lvars>>

\* lines 23-38: one iteration of the generation loop
GenerateSlave ==
    /\ bpc = "gen"
    /\ Len(slave_times) < NUM_SLAVES
    /\ \E r \in RandValues :
         LET slave_time == master_time + SlaveOffset(r)
         IN  /\ slave_times' = Append(slave_times, slave_time)
             /\ time_differences' =
                    Append(time_differences, Difference(master_time, slave_time))
    /\ UNCHANGED <<bpc, master_time, sum, average_difference, synchronized_time>>
    /\ UNCHANGED <<cvars, lvars>>

\* lines 41-44: the summation loop
SumDifferences ==
    /\ bpc = "gen"
    /\ Len(slave_times) = NUM_SLAVES
    /\ sum' = SumOf(time_differences)
    /\ bpc' = "summed"
    /\ UNCHANGED <<master_time, slave_times, time_differences,
                   average_difference, synchronized_time>>
    /\ UNCHANGED <<cvars, lvars>>

\* line 46
Average ==
    /\ bpc = "summed"
    /\ average_difference' = AverageDifference(sum, NUM_SLAVES)
    /\ bpc' = "averaged"
    /\ UNCHANGED <<master_time, slave_times, time_differences, sum,
                   synchronized_time>>
    /\ UNCHANGED <<cvars, lvars>>

\* line 52
Synchronize ==
    /\ bpc = "averaged"
    /\ synchronized_time' = SynchronizedMaster(master_time, average_difference)
    /\ bpc' = "synced"
    /\ UNCHANGED <<master_time, slave_times, time_differences, sum,
                   average_difference>>
    /\ UNCHANGED <<cvars, lvars>>

\* lines 60-66: the update loop, then return 0
UpdateSlaves ==
    /\ bpc = "synced"
    /\ slave_times' = UpdatedSlaves(slave_times, average_difference)
    /\ bpc' = "done"
    /\ UNCHANGED <<master_time, time_differences, sum, average_difference,
                   synchronized_time>>
    /\ UNCHANGED <<cvars, lvars>>

BNext ==
    \/ ReadMaster
    \/ GenerateSlave
    \/ SumDifferences
    \/ Average
    \/ Synchronize
    \/ UpdateSlaves

(***************************************************************************)
(*                         cristian.cpp                                    *)
(* system_clock is the wall clock: it counts ticks (TicksPerMs of them in  *)
(* a millisecond), it advances while the thread sleeps, and it may be set  *)
(* back by an external adjustment while the thread sleeps.                 *)
(***************************************************************************)
\* sleep_for(milliseconds(100))
SleepMs == 100

\* Bounds of the model: ticks of system_clock per millisecond, the largest
\* oversleep in ticks, the largest amount (beyond the sleep itself) by which
\* an adjustment sets the wall clock back, and the number of start times.
TicksPerMs == 2
MaxJitter  == 3
MaxBack    == 3
MaxStart   == 1

StartTimes == {(1000 + s) * TicksPerMs : s \in 0..MaxStart}

\* What an external adjustment adds to the wall clock during one sleep.
ClockAdjustments ==
    {0} \cup {-(SleepMs * TicksPerMs) - s : s \in 0..MaxBack}

\* milliseconds(n) as a system_clock duration
Milliseconds(n) == n * TicksPerMs

\* duration_cast<milliseconds>(d).count(): truncates toward zero
DurationCastMs(d) == TruncDiv(d, TicksPerMs)

RoundTrip_Swapped(t0, t1) == t0 - t1
RoundTrip(t0, t1) == t1 - t0

\* RTT / 2 on a signed integer
HalfRTT_RoundUp(rtt) == (rtt + 1) \div 2
HalfRTT(rtt) == TruncDiv(rtt, 2)

\* system_clock::to_time_t: whole seconds
ToTimeT(t) == TruncDiv(t, 1000 * TicksPerMs)

\* Before main() runs: nothing sampled, nothing printed.
CIdle ==
    /\ cpc = "start"
    /\ nondecreasing = TRUE
    /\ T0 = 0
    /\ T_server = 0
    /\ T1 = 0
    /\ RTT = 0
    /\ c_synchronized_time = 0
    /\ c_out = <<>>
    /\ c_result = "running"

CInit == CIdle /\ now \in StartTimes

\* line 13
SampleT0 ==
    /\ cpc = "start"
    /\ T0' = now
    /\ cpc' = "sleep1"
    /\ UNCHANGED <<now, nondecreasing, T_server, T1, RTT, c_synchronized_time,
                   c_out, c_result>>
    /\ UNCHANGED <<bvars, lvars>>

\* lines 16 and 22: the thread sleeps at least SleepMs; the wall clock moves
\* by the time slept plus whatever adjustment it received meanwhile.
Sleep(from, to) ==
    /\ cpc = from
    /\ \E j \in 0..MaxJitter, a \in ClockAdjustments :
         /\ now' = now + Milliseconds(SleepMs) + j + a
         /\ nondecreasing' = (nondecreasing /\ now' >= now)
    /\ cpc' = to
    /\ UNCHANGED <<T0, T_server, T1, RTT, c_synchronized_time, c_out, c_result>>
    /\ UNCHANGED <<bvars, lvars>>

Sleep1 == Sleep("sleep1", "server")
Sleep2 == Sleep("sleep2", "receive")

\* line 19
SampleServer ==
    /\ cpc = "server"
    /\ T_server' = now
    /\ cpc' = "sleep2"
    /\ UNCHANGED <<now, nondecreasing, T0, T1, RTT, c_synchronized_time,
                   c_out, c_result>>
    /\ UNCHANGED <<bvars, lvars>>

\* line 25
SampleT1 ==
    /\ cpc = "receive"
    /\ T1' = now
    /\ cpc' = "rtt"
    /\ UNCHANGED <<now, nondecreasing, T0, T_server, RTT, c_synchronized_time,
                   c_out, c_result>>
    /\ UNCHANGED <<bvars, lvars>>

\* line 28
ComputeRTT ==
    /\ cpc = "rtt"
    /\ RTT' = DurationCastMs(RoundTrip(T0, T1))
    /\ cpc' = "sync"
    /\ UNCHANGED <<now, nondecreasing, T0, T_server, T1, c_synchronized_time,
                   c_out, c_result>>
    /\ UNCHANGED <<bvars, lvars>>

\* line 31
ComputeSync ==
    /\ cpc = "sync"
    /\ c_synchronized_time' = T_server + Milliseconds(HalfRTT(RTT))
    /\ cpc' = "print"
    /\ UNCHANGED <<now, nondecreasing, T0, T_server, T1, RTT, c_out, c_result>>
    /\ UNCHANGED <<bvars, lvars>>

\* lines 34-43: the four output lines (a time line is recorded by the time_t
\* handed to ctime), then return 0
PrintResult ==
    /\ cpc = "print"
    /\ c_out' = << <<"Server Time", ToTimeT(T_server)>>,
                   <<"Client Actual Time", ToTimeT(T1)>>,
                   <<"Round Trip Time (RTT)", RTT>>,
                   <<"Synchronized Client Time", ToTimeT(c_synchronized_time)>> >>
    /\ c_result' = "ok"
    /\ cpc' = "done"
    /\ UNCHANGED <<now, nondecreasing, T0, T_server, T1, RTT, c_synchronized_time>>
    /\ UNCHANGED <<bvars, lvars>>

CNext ==
    \/ SampleT0
    \/ Sleep1
    \/ SampleServer
    \/ Sleep2
    \/ SampleT1
    \/ ComputeRTT
    \/ ComputeSync
    \/ PrintResult

(***************************************************************************)
(*                         LoadBalancer.cc                                 *)
(* The simulation kernel delivers the messages addressed to the module one *)
(* at a time, in arrival order, to handleMessage.                          *)
(***************************************************************************)
\* Bounds of the model: how many messages arrive, and the largest payload.
MaxMsgs    == 4
MaxPayload == 1

Messages == [id : 1..MaxMsgs, payload : 0..MaxPayload]

\* intuniform(a, b): the values it may return
intuniform_Wide(a, b) == a..(b + 1)
intuniform(a, b) == a..b

\* send(msg, "out", choice): what leaves the module
Sent(msg, choice) == << [msg |-> msg, gate |-> "out", index |-> choice] >>

LInit ==
    /\ lb_queue = <<>>
    /\ lb_arrived = 0
    /\ lb_handled = <<>>
    /\ lb_sent = <<>>

\* The kernel schedules a new message for the module.
Arrive ==
    /\ lb_arrived < MaxMsgs
    /\ \E p \in 0..MaxPayload :
         lb_queue' = Append(lb_queue, [id |-> lb_arrived + 1, payload |-> p])
    /\ lb_arrived' = lb_arrived + 1
    /\ UNCHANGED <<lb_handled, lb_sent>>
    /\ UNCHANGED <<bvars, cvars>>

\* lines 8-11
handleMessageOn(choice) ==
    /\ lb_queue # <<>>
    /\ choice \in intuniform(0, 1)
    /\ LET msg == Head(lb_queue)
       IN  /\ lb_sent' = lb_sent \o Sent(msg, choice)
           /\ lb_handled' = Append(lb_handled, msg)
    /\ lb_queue' = Tail(lb_queue)
    /\ UNCHANGED lb_arrived
    /\ UNCHANGED <<bvars, cvars>>

handleMessage == \E choice \in intuniform(0, 1) : handleMessageOn(choice)

LNext ==
    \/ Arrive
    \/ handleMessage

(***************************************************************************)
(*                         Specifications                                  *)
(***************************************************************************)
InitBerkeley == BInit /\ CIdle /\ now = 0 /\ LInit
InitCristian == BInit /\ CInit /\ LInit
InitBalancer == BInit /\ CIdle /\ now = 0 /\ LInit

SpecBerkeley == InitBerkeley /\ [][BNext]_vars
SpecCristian == InitCristian /\ [][CNext]_vars
SpecBalancer == InitBalancer /\ [][LNext]_vars

(***************************************************************************)
(*                         Properties: berkeley.cpp                        *)
(***************************************************************************)
\* The offsets reference - participant_i of the readings now in slave_times.
Offsets == [i \in DOMAIN slave_times |-> master_time - slave_times[i]]

\* The step in which the slave clocks are updated.
UpdateStep == bpc = "synced" /\ bpc' = "done"

\* C1 (as stated): when every offset reference - participant_i is the same k,
\* average_offset is k and every corrected reading, the corrected reference
\* and each corrected participant, equals reference + k.
C1_ConstantOffsetAllEqual ==
    (bpc = "done" /\ \E k \in -OffsetShift..OffsetShift :
                        \A i \in DOMAIN time_differences : time_differences[i] = k)
    => /\ average_difference = time_differences[1]
       /\ synchronized_time = master_time + time_differences[1]
       /\ \A i \in DOMAIN slave_times :
            slave_times[i] = master_time + time_differences[1]

\* C2 (as stated): after correction every corrected participant differs from
\* the corrected reference by one and the same constant.
C2_SameConstantOffset ==
    bpc = "done"
    => \A i, j \in DOMAIN slave_times :
         synchronized_time - slave_times[i] = synchronized_time - slave_times[j]

\* C3: the update keeps every offset: corrected_reference minus
\* corrected_participant_i equals reference minus participant_i, and the
\* corrected participants are as many as, and in the order of, the input.
C3_OffsetsPreserved ==
    [][UpdateStep =>
         /\ Len(slave_times') = Len(slave_times)
         /\ Len(slave_times') = NUM_SLAVES
         /\ \A i \in DOMAIN slave_times :
              /\ synchronized_time' - slave_times'[i] = master_time - slave_times[i]
              /\ slave_times'[i] - slave_times[i] = synchronized_time' - master_time
       ]_vars

C3_Witness ==
    /\ bpc = "done"
    /\ average_difference # 0
    /\ \E i, j \in DOMAIN slave_times : slave_times[i] # slave_times[j]

\* C4: average_offset is the sum of the N offsets reference - participant_i
\* (the reference not among them) divided by N, truncated toward zero for
\* positive and negative sums alike: never floored, never rounded to nearest.
C4_AverageTruncates ==
    bpc \in {"averaged", "synced"}
    => LET total == SumOf(Offsets)
           q     == average_difference
       IN  /\ Len(slave_times) = NUM_SLAVES
           /\ sum = total
           /\ Abs(q * NUM_SLAVES) <= Abs(total)
           /\ Abs(total - q * NUM_SLAVES) < NUM_SLAVES
           /\ (total >= 0 => q >= 0)
           /\ (total <= 0 => q <= 0)
           /\ (total = -7 => q = -1)
           /\ (total = -5 => q = 0)
           /\ (total = 7 => q = 1)

C4_Witness ==
    /\ bpc = "averaged"
    /\ SumOf(Offsets) = -7
    /\ average_difference = -1

\* C8: when the offsets sum to zero, and more generally when the absolute
\* value of their sum is smaller than N, average_offset is 0, the corrected
\* reference is the reference and every corrected participant is its
\* original reading.
C8_SmallSumUnchanged ==
    [][(UpdateStep /\ Abs(SumOf(Offsets)) < NUM_SLAVES) =>
         /\ average_difference = 0
         /\ synchronized_time' = master_time
         /\ slave_times' = slave_times
       ]_vars

C8_Witness ==
    /\ bpc = "done"
    /\ sum = -5
    /\ synchronized_time = master_time
    /\ \A i \in DOMAIN slave_times :
         slave_times[i] = master_time - time_differences[i]

(***************************************************************************)
(*                         Properties: cristian.cpp                        *)
(***************************************************************************)
\* C6 (as stated, timestamps in one unit, the clock's tick): RTT = T1 - T0
\* and synchronized_time = Ts + RTT/2 with the half truncated.
C6_RttIsExactDifference ==
    (cpc = "done" /\ T1 >= T0)
    => /\ Milliseconds(RTT) = T1 - T0
       /\ c_synchronized_time = T_server + (T1 - T0) \div 2

\* C6 (amended): for T1 >= T0, RTT is T1 - T0 in whole milliseconds, the
\* fraction of a millisecond dropped, and synchronized_time is Ts plus RTT/2
\* milliseconds with the half truncated (RTT = 201 gives 100, not 101);
\* T0 = 1000, Ts = 1100, T1 = 1200 ms gives RTT = 200 and 1200 ms.
C6_RttWholeMsHalfTruncated ==
    (cpc \in {"print", "done"} /\ T1 >= T0)
    => /\ RTT >= 0
       /\ Milliseconds(RTT) <= T1 - T0
       /\ T1 - T0 < Milliseconds(RTT + 1)
       /\ \E h \in 0..RTT :
            /\ 2 * h <= RTT
            /\ RTT <= 2 * h + 1
            /\ c_synchronized_time = T_server + Milliseconds(h)
       /\ (RTT = 201 => c_synchronized_time = T_server + Milliseconds(100))
       /\ (/\ T0 = Milliseconds(1000)
           /\ T_server = Milliseconds(1100)
           /\ T1 = Milliseconds(1200))
          => (RTT = 200 /\ c_synchronized_time = Milliseconds(1200))

C6_Witness ==
    /\ cpc = "done"
    /\ T1 >= T0
    /\ RTT = 201
    /\ T1 - T0 > Milliseconds(RTT)
    /\ c_synchronized_time = T_server + Milliseconds(100)

\* C7 (as stated): when T1 < T0 the computation fails with InvalidInput and
\* produces no RTT and no synchronized time.
C7_NegativeRttRejected ==
    (cpc = "done" /\ T1 < T0)
    => /\ c_result = "InvalidInput"
       /\ c_out = <<>>

\* C9: the samples are taken in the order T0, T_server, T1, so when the
\* clock never went back between them T0 <= T_server <= T1, RTT >= 0 and
\* the synchronized time lies in [T_server, T_server + RTT].
C9_OrderedSamples ==
    /\ (cpc \in {"start"} => (T0 = 0 /\ T_server = 0 /\ T1 = 0))
    /\ (cpc \in {"sleep1", "server"} => (T_server = 0 /\ T1 = 0))
    /\ (cpc \in {"sleep2", "receive"} => T1 = 0)
    /\ (nondecreasing /\ cpc \in {"sleep2", "receive"}) => T0 <= T_server
    /\ (nondecreasing /\ cpc \in {"rtt", "sync", "print", "done"})
       => (T0 <= T_server /\ T_server <= T1)
    /\ (nondecreasing /\ cpc \in {"sync", "print", "done"}) => RTT >= 0
    /\ (nondecreasing /\ cpc \in {"print", "done"})
       => /\ T_server <= c_synchronized_time
          /\ c_synchronized_time <= T_server + Milliseconds(RTT)

C9_Witness ==
    /\ cpc = "done"
    /\ nondecreasing
    /\ T0 < T_server
    /\ T_server < T1
    /\ RTT > 0
    /\ c_synchronized_time > T_server

(***************************************************************************)
(*                         Properties: LoadBalancer.cc                     *)
(***************************************************************************)
\* C10: every message handled is sent exactly once, unchanged, on gate
\* "out" with index 0 or 1, in the step that handles it; none is dropped,
\* duplicated, held back or sent elsewhere; and for every message both
\* index 0 and index 1 are possible choices.
C10_ForwardedOnce ==
    /\ Len(lb_sent) = Len(lb_handled)
    /\ lb_arrived = Len(lb_handled) + Len(lb_queue)
    /\ \A i \in DOMAIN lb_sent :
         /\ lb_sent[i].msg = lb_handled[i]
         /\ lb_sent[i].msg.id = i
         /\ lb_sent[i].gate = "out"
         /\ lb_sent[i].index \in {0, 1}
    /\ lb_queue # <<>>
       => (ENABLED handleMessageOn(0) /\ ENABLED handleMessageOn(1))

C10_Witness ==
    /\ Len(lb_sent) >= 2
    /\ \E i, j \in DOMAIN lb_sent :
         /\ lb_sent[i].index = 0
         /\ lb_sent[j].index = 1
         /\ lb_sent[j].msg.payload = 1

====
